---- MODULE Spec2Model ----
(***************************************************************************)
(* Barcode scanner monitoring: the keyboard-hook assembler                 *)
(* (internal/scanner/hook.go), the payload classifier (pkg/barcode), the   *)
(* barcode handler (internal/handlers) and the WebSocket hub               *)
(* (internal/websocket/hub.go).                                            *)
(*                                                                         *)
(* Strings are sequences of byte values (ASCII codes).  The Chinese type   *)
(* tags and messages of the source are written as ASCII stand-ins; the     *)
(* source text is given in the comment next to each.                       *)
(* Time is counted in ticks, TicksPerMs ticks per millisecond, so that     *)
(* Duration.Milliseconds() is a truncating division.                       *)
(***************************************************************************)
EXTENDS Integers, Sequences, FiniteSets, TLC

VARIABLES
    config,         \* Hook.config: [TimeoutMS, MinLength, MaxLength]
    barcodeBuffer,  \* Hook.barcodeBuffer: sequence of bytes
    lastKeyTime,    \* Hook.lastKeyTime: ticks, or ZeroTime before any key-down
    now,            \* the clock read by time.Now(), in ticks
    nEvents,        \* number of hook invocations so far
    script,         \* the key events still to be replayed (SpecReplay), else <<>>
    handled,        \* log of the payloads built by ProcessBarcode, oldest first
    hist,           \* history of the assembler, used only to state properties
    cls,            \* SpecCls: a content and the result of classifying it
    broadcast,      \* Hub.broadcast: the buffered channel of serialized messages
    clients,        \* Hub.clients: the keys of the map (the live set)
    closed,         \* Hub.Close() has closed broadcast, register and unregister
    runPc,          \* Hub.Run: "select", or "welcome" inside the register case; in
                    \* SpecMu also the case whose lock is held: "register",
                    \* "unregister", "broadcast"
    runClient,      \* Hub.Run: the client of the register case being processed
    hs,             \* per client: HandleWebSocket's position
    send,           \* per client: Client.send, the buffered outbound channel
    sendClosed,     \* per client: Client.send was closed
    conn,           \* per client: Client.conn: "open", "broken" (peer fault) or "closed"
    wp,             \* per client: writePump's position
    rp,             \* per client: readPump's position
    written,        \* per client: the messages written to the transport, in order
    fatal,          \* "" or the panic that ended the process
    hhist,          \* history of the hub, used only to state properties
    mu,             \* Hub.mu: [w: held for writing, r: number of read holders]
    rd,             \* readers of the map outside Run: GetClientCount's caller
                    \* ("idle", "rlocked") and BroadcastBarcode's len(h.clients)
                    \* ("idle", "reading")
    devices,        \* the devices table: per row id, its is_active column
    calls           \* per caller of DeviceService.ActivateDevice: its position,
                    \* its argument, its result, and history used only to state
                    \* properties

asmVars == <<config, barcodeBuffer, lastKeyTime, now, nEvents, script, handled, hist>>
sinkVars == <<broadcast, fatal, hhist>>
loopVars == <<clients, closed, runPc, runClient>>
sessVars == <<hs, send, sendClosed, conn, wp, rp, written>>
muVars == <<mu, rd>>
dbVars == <<devices, calls>>
vars == <<config, barcodeBuffer, lastKeyTime, now, nEvents, script, handled, hist, cls,
          broadcast, clients, closed, runPc, runClient, hs, send, sendClosed, conn, wp, rp,
          written, fatal, hhist, mu, rd, devices, calls>>

----------------------------------------------------------------------------
(* DeviceService.ActivateDevice (internal/service/device_service.go).  The
   method issues two UPDATE statements on the devices table, one after the
   other, outside any transaction; the handlers that call it run
   concurrently, so the statements of two calls interleave.  Both
   statements are taken to succeed (no database error). *)

MaxDevices == 2     \* rows of the devices table
MaxCallers == 2     \* concurrent callers
MaxCalls == 2       \* calls per caller

DeviceIds == 1..MaxDevices
\* the ids a caller may pass: those of the rows and one that matches no row
RequestIds == 1..(MaxDevices + 1)
Callers == 1..MaxCallers

\* the rows with is_active = true
ActiveDevices(table) == {i \in DeviceIds : table[i]}

\* seedDevices: the default device is created active
SeedDevices == [i \in DeviceIds |-> i = 1]

\* the tables with at most one active row
Tables == {t \in [DeviceIds -> BOOLEAN] : Cardinality(ActiveDevices(t)) <= 1}

\* the error of a call whose id matches no row, "设备不存在"
ErrNotExist == "device does not exist"

NoCall == [pc |-> "idle", id |-> 0, result |-> "", before |-> {}, alone |-> TRUE, n |-> 0]

InitDb == devices = SeedDevices /\ calls = [p \in Callers |-> NoCall]

\* UPDATE devices SET is_active = false WHERE is_active = true (lines 161-163)
DeactivateAll(table) == [i \in DeviceIds |-> IF table[i] THEN FALSE ELSE table[i]]

\* UPDATE devices SET is_active = true, ... WHERE id = ? (lines 166-170):
\* the new table and the number of rows affected
Activate(table, id) ==
    [table |-> [i \in DeviceIds |-> IF i = id THEN TRUE ELSE table[i]],
     RowsAffected |-> Cardinality({i \in DeviceIds : i = id})]

\* a call ActivateDevice(id) by p starts and runs its first statement
ActivateDeviceBegin(p, id) ==
    /\ calls[p].pc = "idle"
    /\ calls[p].n < MaxCalls
    /\ devices' = DeactivateAll(devices)
    /\ calls' = [q \in Callers |->
                   IF q = p
                   THEN [pc |-> "activate", id |-> id, result |-> "",
                         before |-> ActiveDevices(devices),
                         alone |-> \A r \in Callers \ {p} : calls[r].pc = "idle",
                         n |-> calls[p].n + 1]
                   ELSE IF calls[q].pc = "activate"
                        THEN [calls[q] EXCEPT !.alone = FALSE]
                        ELSE calls[q]]
    /\ UNCHANGED <<asmVars, cls, sinkVars, loopVars, sessVars, muVars>>

\* the call of p runs its second statement and returns (lines 166-182)
ActivateDeviceEnd(p) ==
    /\ calls[p].pc = "activate"
    /\ LET result == Activate(devices, calls[p].id)
       IN  /\ devices' = result.table
           /\ calls' = [calls EXCEPT ![p].pc = "idle",
                                     ![p].result = IF result.RowsAffected = 0
                                                   THEN ErrNotExist ELSE "ok"]
    /\ UNCHANGED <<asmVars, cls, sinkVars, loopVars, sessVars, muVars>>

----------------------------------------------------------------------------
(* Bounds of the model *)

TicksPerMs == 2       \* clock resolution of the model: ticks per millisecond
MaxEvents == 5        \* hook invocations explored by SpecAsm
MaxDigits == 14       \* longest digit run of the contents classified in SpecCls
CfgTimeoutMS == 1     \* scanner.timeout_ms of the explored configuration
CfgMinLength == 2     \* scanner.min_length of the explored configuration
CfgMaxLength == 3     \* scanner.max_length of the explored configuration
BroadcastCap == 2     \* capacity of Hub.broadcast (256 in NewHub), scaled down
SendCap == 2          \* capacity of Client.send (256 in HandleWebSocket), scaled down
MaxClients == 2       \* connections accepted in SpecHub
MaxMsgs == 2          \* BroadcastBarcode calls in SpecHub
MaxInbound == 1       \* messages a subscriber sends in SpecIn

(* Program constants *)

HC_ACTION == 0
WM_KEYDOWN == 256     \* 0x0100
WM_KEYUP == 257       \* 0x0101
VK_RETURN == 13       \* 0x0D
DefaultTimeoutMS == 100
DefaultMinLength == 3
DefaultMaxLength == 50

ZeroTime == -1        \* the zero time.Time of a fresh Hook

----------------------------------------------------------------------------
(* pkg/barcode: the classifier *)

\* type tags returned by GetBarcodeType
TypeUnknown == "unknown"            \* "未知"
TypeEAN8    == "EAN-8"
TypeUPCA    == "UPC-A"
TypeEAN13   == "EAN-13"
TypeITF14   == "ITF-14"
TypeCode128 == "Code 128"
TypeProduct == "product-barcode"    \* "产品条码"
TypeLot     == "lot-barcode"        \* "批次条码"
TypeSerial  == "serial-barcode"     \* "序列号条码"
TypeOther   == "other"              \* "其他类型"

\* messages returned by generateMessage
MsgProduct == "product: querying product info"   \* "识别为产品条码，正在查询产品信息..."
MsgLot     == "lot: querying lot info"           \* "识别为批次条码，正在查询批次信息..."
MsgSerial  == "serial: verifying serial number"  \* "识别为序列号条码，正在验证序列号..."
MsgEAN13   == "EAN-13: verifying"                \* "识别为EAN-13条码，正在验证..."
MsgUPCA    == "UPC-A: processing"                \* "识别为UPC-A条码，正在处理..."
MsgEAN8    == "EAN-8: processing"                \* "识别为EAN-8条码，正在处理..."
MsgITF14   == "ITF-14: processing"               \* "识别为ITF-14条码，正在处理..."
MsgGeneric == "generic: recording"               \* "通用条码，正在记录..."

PRD == <<80, 82, 68>>     \* "PRD"
LOT == <<76, 79, 84>>     \* "LOT"
SN  == <<83, 78>>         \* "SN"

\* strings.HasPrefix
HasPrefix(s, p) == Len(s) >= Len(p) /\ SubSeq(s, 1, Len(p)) = p

\* mutant: the lower bound off by one ('0' is rejected)
isAllDigits_LowMut(s) == \A i \in 1..Len(s) : s[i] > 48 /\ s[i] <= 57

\* r < '0' || r > '9' rejects
isAllDigits(s) == \A i \in 1..Len(s) : s[i] >= 48 /\ s[i] <= 57

\* '0'..'9', 'A'..'Z', 'a'..'z', '-', '.'
isAlphaNumeric(s) ==
    \A i \in 1..Len(s) :
        \/ (s[i] >= 48 /\ s[i] <= 57)
        \/ (s[i] >= 65 /\ s[i] <= 90)
        \/ (s[i] >= 97 /\ s[i] <= 122)
        \/ s[i] = 45
        \/ s[i] = 46

\* the switch of GetBarcodeType, cases in source order
GetBarcodeType(barcode) ==
    IF barcode = <<>> THEN TypeUnknown
    ELSE IF Len(barcode) = 8 /\ isAllDigits(barcode) THEN TypeEAN8
    ELSE IF Len(barcode) = 12 /\ isAllDigits(barcode) THEN TypeUPCA
    ELSE IF Len(barcode) = 13 /\ isAllDigits(barcode) THEN TypeEAN13
    ELSE IF Len(barcode) = 14 /\ isAllDigits(barcode) THEN TypeITF14
    ELSE IF isAlphaNumeric(barcode) THEN TypeCode128
    ELSE IF HasPrefix(barcode, PRD) THEN TypeProduct
    ELSE IF HasPrefix(barcode, LOT) THEN TypeLot
    ELSE IF HasPrefix(barcode, SN) THEN TypeSerial
    ELSE TypeOther

\* the switch of generateMessage, cases in source order
generateMessage(barcode) ==
    IF HasPrefix(barcode, PRD) THEN MsgProduct
    ELSE IF HasPrefix(barcode, LOT) THEN MsgLot
    ELSE IF HasPrefix(barcode, SN) THEN MsgSerial
    ELSE IF Len(barcode) = 13 /\ isAllDigits(barcode) THEN MsgEAN13
    ELSE IF Len(barcode) = 12 /\ isAllDigits(barcode) THEN MsgUPCA
    ELSE IF Len(barcode) = 8 /\ isAllDigits(barcode) THEN MsgEAN8
    ELSE IF Len(barcode) = 14 /\ isAllDigits(barcode) THEN MsgITF14
    ELSE MsgGeneric

\* the characters ValidateBarcode lets pass: digits, letters,
\* - . _ / \ : ; [ ] ( ) + = and the space
LegalChar(r) ==
    \/ (r >= 48 /\ r <= 57)
    \/ (r >= 65 /\ r <= 90)
    \/ (r >= 97 /\ r <= 122)
    \/ r \in {45, 46, 95, 47, 92, 58, 59, 91, 93, 40, 41, 43, 61, 32}

\* Processor.ValidateBarcode: whether the barcode is accepted
ValidateBarcode(barcode) ==
    IF barcode = <<>> THEN FALSE
    ELSE IF Len(barcode) < 3 THEN FALSE
    ELSE IF Len(barcode) > 50 THEN FALSE
    ELSE \A i \in 1..Len(barcode) : LegalChar(barcode[i])

\* the BarcodeData built by ProcessBarcode at time t
ProcessBarcode(content, t) ==
    [ Content   |-> content,
      Length    |-> Len(content),
      Type      |-> GetBarcodeType(content),
      Timestamp |-> t,
      Status    |-> "success",
      Message   |-> generateMessage(content) ]

----------------------------------------------------------------------------
(* internal/websocket/hub.go: the hub and the client sessions *)

Clients == 1..MaxClients
Nil == 0              \* the nil *Client received from a closed channel
NoPanic == ""

Range(q) == { q[i] : i \in 1..Len(q) }

\* mutant: the payload loses its status on the way into the message
BarcodeMessage_StripMut(data, t) ==
    [ Type |-> "barcode", Data |-> [data EXCEPT !.Status = ""], Time |-> t ]

\* the Message marshalled by BroadcastBarcode
BarcodeMessage(data, t) == [ Type |-> "barcode", Data |-> data, Time |-> t ]

\* the welcome Message of the register case; the greeting is
\* "WebSocket连接成功，等待扫码数据..."
WelcomeMessage(t) ==
    [ Type |-> "welcome", Data |-> [message |-> "connected, waiting for scans"], Time |-> t ]

\* select { case ch <- m: default: } on an open channel: whether the send is taken
HasRoom(ch, cap) == Len(ch) < cap

\* mutant: the message is put in front of the pending ones
TrySend_FrontMut(ch, cap, m) == IF HasRoom(ch, cap) THEN <<m>> \o ch ELSE ch

\* BroadcastBarcode's select: send if the channel has room, else drop
TrySend(ch, cap, m) == IF HasRoom(ch, cap) THEN Append(ch, m) ELSE ch

\* Hub.BroadcastBarcode on the open channel ch
BroadcastBarcode(ch, data, t) == TrySend(ch, BroadcastCap, BarcodeMessage(data, t))

\* BarcodeHandler.HandleBarcode at time t: ProcessBarcode, then
\* Hub.BroadcastBarcode; a send on the closed channel panics
HandleBarcode(content, t) ==
    LET data == ProcessBarcode(content, t)
    IN  IF closed
        THEN /\ fatal' = "send on closed channel"
             /\ UNCHANGED <<broadcast, hhist>>
        ELSE /\ broadcast' = BroadcastBarcode(broadcast, data, t)
             /\ hhist' = [hhist EXCEPT !.submitted =
                            IF Len(broadcast) < BroadcastCap
                            THEN Append(@, BarcodeMessage(data, t)) ELSE @]
             /\ UNCHANGED fatal

(* History of the hub (not program state):                                 *)
(*   submitted  the messages BroadcastBarcode put on Hub.broadcast, in     *)
(*              order                                                      *)
(*   fanned     the messages the broadcast case has processed              *)
(*   enq        per client, every message ever enqueued on its queue       *)
(*   before     per client, the messages submitted before HandleWebSocket  *)
(*              reached its send on Hub.register                           *)
(*   atReg      per client, the messages fanned out before the register    *)
(*              case took the client                                       *)
(*   how        per client, which code closed its queue                    *)
(*   closes     per client, how many times close(send) ran                 *)
(*   inbound    per client, the messages readPump has read from it         *)
HHistInit ==
    [ submitted |-> <<>>, fanned |-> {},
      enq |-> [c \in Clients |-> <<>>],
      before |-> [c \in Clients |-> {}],
      atReg |-> [c \in Clients |-> {}],
      how |-> [c \in Clients |-> ""],
      closes |-> [c \in Clients |-> 0],
      inbound |-> [c \in Clients |-> <<>>] ]

\* NewHub: empty map, open channels; no connection accepted yet
InitHub ==
    /\ broadcast = <<>>
    /\ clients = {}
    /\ closed = FALSE
    /\ runPc = "select"
    /\ runClient = Nil
    /\ hs = [c \in Clients |-> "idle"]
    /\ send = [c \in Clients |-> <<>>]
    /\ sendClosed = [c \in Clients |-> FALSE]
    /\ conn = [c \in Clients |-> "open"]
    /\ wp = [c \in Clients |-> "off"]
    /\ rp = [c \in Clients |-> "off"]
    /\ written = [c \in Clients |-> <<>>]
    /\ fatal = NoPanic
    /\ hhist = HHistInit
    /\ mu = [w |-> FALSE, r |-> 0]
    /\ rd = [count |-> "idle", len |-> "idle"]

Alive == fatal = NoPanic

\* HandleWebSocket up to `client.hub.register <- client`: the connection is
\* upgraded, the client made, and the handler is at the send.  A send on the
\* closed channel panics in the handler's goroutine, where net/http recovers
\* it: the handler is over ("failed") and the process lives on
Connect(c) ==
    /\ Alive
    /\ hs[c] = "idle"
    /\ \A d \in Clients : d < c => hs[d] # "idle"     \* numbered in the order they come
    /\ IF closed
       THEN /\ hs' = [hs EXCEPT ![c] = "failed"]
            /\ UNCHANGED hhist
       ELSE /\ hs' = [hs EXCEPT ![c] = "register"]
            /\ hhist' = [hhist EXCEPT !.before[c] = Range(hhist.submitted)]
    /\ UNCHANGED <<asmVars, cls, broadcast, fatal, loopVars, send, sendClosed, conn, wp, rp,
                   written>>
    /\ UNCHANGED <<muVars, dbVars>>

\* mutant: the handler starts the session loops without waiting for Run to
\* take the register request (a buffered Hub.register)
Spawn_EarlyMut(c) ==
    /\ Alive
    /\ hs[c] \in {"register", "spawn"}
    /\ hs' = [hs EXCEPT ![c] = "done"]
    /\ wp' = [wp EXCEPT ![c] = "run"]
    /\ rp' = [rp EXCEPT ![c] = "run"]
    /\ UNCHANGED <<asmVars, cls, sinkVars, loopVars, send, sendClosed, conn, written>>
    /\ UNCHANGED <<muVars, dbVars>>

\* HandleWebSocket after the send: go client.writePump(); go client.readPump()
Spawn(c) ==
    /\ Alive
    /\ hs[c] = "spawn"
    /\ hs' = [hs EXCEPT ![c] = "done"]
    /\ wp' = [wp EXCEPT ![c] = "run"]
    /\ rp' = [rp EXCEPT ![c] = "run"]
    /\ UNCHANGED <<asmVars, cls, sinkVars, loopVars, send, sendClosed, conn, written>>
    /\ UNCHANGED <<muVars, dbVars>>

\* Hub.Run, case client := <-h.register, up to the map insert (lines 68-71)
RegisterCase(c) ==
    /\ Alive /\ ~closed
    /\ hs[c] = "register"
    /\ clients' = clients \cup {c}
    /\ runPc' = "welcome"
    /\ runClient' = c
    /\ hs' = [hs EXCEPT ![c] = "spawn"]
    /\ hhist' = [hhist EXCEPT !.atReg[c] = hhist.fanned]
    /\ UNCHANGED <<asmVars, cls, broadcast, fatal, closed, send, sendClosed, conn, wp, rp,
                   written>>

\* the register case taken from the select, Hub.mu held only within the step
RunRegister(c) == runPc = "select" /\ RegisterCase(c) /\ UNCHANGED <<muVars, dbVars>>

\* the same case once h.register is closed: the receive yields nil
RunRegisterNil ==
    /\ Alive /\ runPc = "select" /\ closed
    /\ clients' = clients \cup {Nil}
    /\ runPc' = "welcome"
    /\ runClient' = Nil
    /\ UNCHANGED <<asmVars, cls, sinkVars, closed, sessVars>>
    /\ UNCHANGED <<muVars, dbVars>>

\* Hub.Run, register case, the welcome message (lines 76-93)
RunWelcome ==
    /\ Alive /\ runPc = "welcome"
    /\ runPc' = "select"
    /\ runClient' = Nil
    /\ LET c == runClient
       IN  IF c = Nil
           THEN /\ fatal' = "nil pointer dereference"
                /\ UNCHANGED <<clients, send, sendClosed, hhist>>
           ELSE IF sendClosed[c]
           THEN /\ fatal' = "send on closed channel"
                /\ UNCHANGED <<clients, send, sendClosed, hhist>>
           ELSE IF HasRoom(send[c], SendCap)
           THEN /\ send' = [send EXCEPT ![c] = Append(@, WelcomeMessage(now))]
                /\ hhist' = [hhist EXCEPT !.enq[c] = Append(@, WelcomeMessage(now))]
                /\ UNCHANGED <<clients, sendClosed, fatal>>
           ELSE /\ sendClosed' = [sendClosed EXCEPT ![c] = TRUE]
                /\ clients' = clients \ {c}
                /\ hhist' = [hhist EXCEPT !.how[c] = "welcome", !.closes[c] = @ + 1]
                /\ UNCHANGED <<send, fatal>>
    /\ UNCHANGED <<asmVars, cls, broadcast, closed, hs, conn, wp, rp, written>>
    /\ UNCHANGED <<muVars, dbVars>>

\* mutant: the unregister case closes the queue without looking the client up
Present_AlwaysMut(c, live) == TRUE

\* if _, ok := h.clients[client]; ok
Present(c, live) == c \in live

\* Hub.Run, case client := <-h.unregister (lines 95-102)
UnregisterCase(c) ==
    /\ Alive /\ ~closed
    /\ rp[c] = "unreg"
    /\ rp' = [rp EXCEPT ![c] = "close"]
    /\ IF Present(c, clients)
       THEN /\ clients' = clients \ {c}
            /\ IF sendClosed[c]
               THEN /\ fatal' = "close of closed channel"
                    /\ UNCHANGED <<sendClosed, hhist>>
               ELSE /\ sendClosed' = [sendClosed EXCEPT ![c] = TRUE]
                    /\ hhist' = [hhist EXCEPT !.how[c] = "unregister", !.closes[c] = @ + 1]
                    /\ UNCHANGED fatal
       ELSE UNCHANGED <<clients, sendClosed, hhist, fatal>>
    /\ UNCHANGED <<asmVars, cls, broadcast, closed, hs, send, conn, wp, written>>

\* the unregister case taken from the select, Hub.mu held only within the step
RunUnregister(c) ==
    runPc = "select" /\ UnregisterCase(c) /\ UNCHANGED <<runPc, runClient, muVars, dbVars>>

\* the same case once h.unregister is closed: the receive yields nil, which
\* is not in the map
RunUnregisterNil ==
    /\ Alive /\ runPc = "select" /\ closed
    /\ IF Present(Nil, clients)
       THEN fatal' = "nil pointer dereference"
       ELSE UNCHANGED fatal
    /\ UNCHANGED <<asmVars, cls, broadcast, hhist, loopVars, sessVars>>
    /\ UNCHANGED <<muVars, dbVars>>

\* mutant: the fan-out also reaches the clients whose registration is pending
Subscribers_PendingMut(live) == live \cup { c \in Clients : hs[c] = "register" }

\* for client := range h.clients
Subscribers(live) == live

\* mutant: a client whose queue is full has its queue closed but stays in the map
Survivors_KeepMut(live, full) == live

\* delete(h.clients, client) for every client whose queue was full
Survivors(live, full) == live \ full

\* Hub.Run, case message := <-h.broadcast (lines 104-114).  A receive from
\* the closed, drained channel yields the nil message.
BroadcastCase ==
    /\ Alive
    /\ broadcast # <<>> \/ closed
    /\ LET message == IF broadcast # <<>> THEN Head(broadcast) ELSE <<>>
           subs == Subscribers(clients)
           full == { c \in subs : ~HasRoom(send[c], SendCap) }
       IN  /\ broadcast' = IF broadcast # <<>> THEN Tail(broadcast) ELSE broadcast
           /\ IF \E c \in subs : sendClosed[c]
              THEN /\ fatal' = "send on closed channel"
                   /\ UNCHANGED <<clients, send, sendClosed>>
                   /\ hhist' = [hhist EXCEPT !.fanned = @ \cup {message}]
              ELSE /\ send' = [c \in Clients |->
                                 IF c \in subs \ full THEN Append(send[c], message)
                                 ELSE send[c]]
                   /\ sendClosed' = [c \in Clients |-> sendClosed[c] \/ c \in full]
                   /\ clients' = Survivors(clients, full)
                   /\ hhist' = [hhist EXCEPT
                        !.fanned = @ \cup {message},
                        !.enq = [c \in Clients |->
                                   IF c \in subs \ full THEN Append(@[c], message) ELSE @[c]],
                        !.how = [c \in Clients |-> IF c \in full THEN "overflow" ELSE @[c]],
                        !.closes = [c \in Clients |-> IF c \in full THEN @[c] + 1 ELSE @[c]]]
                   /\ UNCHANGED fatal
    /\ UNCHANGED <<asmVars, cls, closed, hs, conn, wp, rp, written>>

\* the broadcast case taken from the select, Hub.mu held only within the step
RunBroadcast ==
    runPc = "select" /\ BroadcastCase /\ UNCHANGED <<runPc, runClient, muVars, dbVars>>

\* Hub.Close (lines 171-185), called once.  Closing a channel panics every
\* sender blocked on it: a handler at its send on register (recovered by
\* net/http), a readPump at its send on unregister (fatal).
Close ==
    /\ Alive /\ ~closed
    /\ closed' = TRUE
    /\ conn' = [c \in Clients |-> IF c \in clients THEN "closed" ELSE conn[c]]
    /\ sendClosed' = [c \in Clients |-> sendClosed[c] \/ c \in clients]
    /\ hhist' = [hhist EXCEPT
         !.how = [c \in Clients |-> IF c \in clients THEN "close" ELSE @[c]],
         !.closes = [c \in Clients |-> IF c \in clients THEN @[c] + 1 ELSE @[c]]]
    /\ hs' = [c \in Clients |-> IF hs[c] = "register" THEN "failed" ELSE hs[c]]
    /\ fatal' = IF \E c \in clients : sendClosed[c] THEN "close of closed channel"
                ELSE IF \E c \in Clients : rp[c] = "unreg" THEN "send on closed channel"
                ELSE fatal
    /\ UNCHANGED <<asmVars, cls, broadcast, clients, runPc, runClient, send, wp, rp, written>>
    /\ UNCHANGED <<muVars, dbVars>>

\* Hub.GetClientCount (lines 164-168): len(h.clients) under the read lock
GetClientCount == Cardinality(clients)

\* writePump's deferred c.conn.Close()
WriteExit(c) ==
    /\ wp' = [wp EXCEPT ![c] = "done"]
    /\ conn' = [conn EXCEPT ![c] = "closed"]

\* writePump, case message, ok := <-c.send with a message (lines 221-236)
WriteMessage(c) ==
    /\ Alive /\ wp[c] = "run"
    /\ send[c] # <<>>
    /\ send' = [send EXCEPT ![c] = Tail(@)]
    /\ IF conn[c] = "open"
       THEN /\ written' = [written EXCEPT ![c] = Append(@, Head(send[c]))]
            /\ UNCHANGED <<wp, conn>>
       ELSE /\ WriteExit(c)
            /\ UNCHANGED written
    /\ UNCHANGED <<asmVars, cls, sinkVars, loopVars, hs, sendClosed, rp>>
    /\ UNCHANGED <<muVars, dbVars>>

\* writePump, the same case on the closed, drained channel (lines 223-226)
WriteClosed(c) ==
    /\ Alive /\ wp[c] = "run"
    /\ send[c] = <<>> /\ sendClosed[c]
    /\ WriteExit(c)
    /\ UNCHANGED <<asmVars, cls, sinkVars, loopVars, hs, send, sendClosed, rp, written>>
    /\ UNCHANGED <<muVars, dbVars>>

\* writePump, case <-ticker.C: the ping fails on a broken or closed transport
\* (lines 238-242); a ping that succeeds changes nothing
WritePingFail(c) ==
    /\ Alive /\ wp[c] = "run"
    /\ conn[c] # "open"
    /\ WriteExit(c)
    /\ UNCHANGED <<asmVars, cls, sinkVars, loopVars, hs, send, sendClosed, rp, written>>
    /\ UNCHANGED <<muVars, dbVars>>

\* what a subscriber may send: a forged payload message, a request to be
\* unregistered
InboundTexts ==
    { BarcodeMessage(ProcessBarcode(<<57, 57, 57>>, 0), 0),
      [Type |-> "unregister", Data |-> [message |-> "all"], Time |-> 0] }

\* mutant: what a subscriber sends is put on Hub.broadcast
Discard_EchoMut(ch, m) == TrySend(ch, BroadcastCap, m)

\* `_, _, err := c.conn.ReadMessage()`: the message read is dropped
Discard(ch, m) == ch

\* readPump: ReadMessage returns a message of the subscriber (lines 200-208)
ReadMessage(c) ==
    /\ Alive /\ rp[c] = "run"
    /\ conn[c] = "open"
    /\ Len(hhist.inbound[c]) < MaxInbound
    /\ \E m \in InboundTexts :
          /\ broadcast' = Discard(broadcast, m)
          /\ hhist' = [hhist EXCEPT !.inbound[c] = Append(@, m)]
    /\ UNCHANGED <<asmVars, cls, fatal, loopVars, sessVars>>
    /\ UNCHANGED <<muVars, dbVars>>

\* readPump: ReadMessage returns an error (the transport is broken or closed,
\* or the peer let the read deadline pass) and the deferred function reaches
\* `c.hub.unregister <- c` (lines 189-192, 200-208)
ReadError(c) ==
    /\ Alive /\ rp[c] = "run"
    /\ conn[c] # "open"
    /\ IF closed
       THEN /\ fatal' = "send on closed channel"
            /\ UNCHANGED rp
       ELSE /\ rp' = [rp EXCEPT ![c] = "unreg"]
            /\ UNCHANGED fatal
    /\ UNCHANGED <<asmVars, cls, broadcast, hhist, loopVars, hs, send, sendClosed, conn, wp,
                   written>>
    /\ UNCHANGED <<muVars, dbVars>>

\* readPump's deferred function after the send: c.conn.Close() (line 191)
ReadClose(c) ==
    /\ Alive /\ rp[c] = "close"
    /\ rp' = [rp EXCEPT ![c] = "done"]
    /\ conn' = [conn EXCEPT ![c] = "closed"]
    /\ UNCHANGED <<asmVars, cls, sinkVars, loopVars, hs, send, sendClosed, wp, written>>
    /\ UNCHANGED <<muVars, dbVars>>

\* the peer goes away or stops answering: reads and writes on the transport
\* fail from now on
Fault(c) ==
    /\ Alive /\ hs[c] # "idle"
    /\ conn[c] = "open"
    /\ conn' = [conn EXCEPT ![c] = "broken"]
    /\ UNCHANGED <<asmVars, cls, sinkVars, loopVars, hs, send, sendClosed, wp, rp, written>>
    /\ UNCHANGED <<muVars, dbVars>>

----------------------------------------------------------------------------
(* internal/scanner/hook.go: the assembler *)

isCharacterKey(vkCode) ==
    \/ (vkCode >= 48 /\ vkCode <= 57)       \* 0x30..0x39
    \/ (vkCode >= 65 /\ vkCode <= 90)       \* 0x41..0x5A
    \/ (vkCode >= 96 /\ vkCode <= 105)      \* 0x60..0x69
    \/ vkCode \in {189, 187, 219, 221, 220, 186, 222, 188, 190, 191}

\* 0 stands for "no character"
getCharFromVirtualKey(vkCode) ==
    IF vkCode >= 48 /\ vkCode <= 57 THEN vkCode
    ELSE IF vkCode >= 65 /\ vkCode <= 90 THEN vkCode
    ELSE IF vkCode >= 96 /\ vkCode <= 105 THEN vkCode - 96 + 48
    ELSE CASE vkCode = 189 -> 45    \* 0xBD '-'
           [] vkCode = 187 -> 61    \* 0xBB '='
           [] vkCode = 219 -> 91    \* 0xDB '['
           [] vkCode = 221 -> 93    \* 0xDD ']'
           [] vkCode = 220 -> 92    \* 0xDC '\'
           [] vkCode = 186 -> 59    \* 0xBA ';'
           [] vkCode = 222 -> 39    \* 0xDE '''
           [] vkCode = 188 -> 44    \* 0xBC ','
           [] vkCode = 190 -> 46    \* 0xBE '.'
           [] vkCode = 191 -> 47    \* 0xBF '/'
           [] OTHER -> 0

\* currentTime.Sub(lastKeyTime), in ticks.  Against the zero time of a fresh
\* Hook the subtraction saturates at the maximal Duration, which is above
\* every timeout an int can configure; the largest model integer stands for it.
Sub(t, last) == IF last = ZeroTime THEN (2147483647 \div TicksPerMs) * TicksPerMs ELSE t - last

\* Duration.Milliseconds(): whole milliseconds, truncated
Milliseconds(d) == d \div TicksPerMs

\* mutant: the buffer is never reset on a long gap
TimedOut_NeverMut(timeDiff, cfg) == FALSE

\* mutant: the millisecond gap compared with the timeout in ticks
TimedOut_UnitMut(timeDiff, cfg) == timeDiff > cfg.TimeoutMS * TicksPerMs

\* mutant: a gap equal to the timeout already resets
TimedOut_GeMut(timeDiff, cfg) == timeDiff >= cfg.TimeoutMS

\* timeDiff > int64(h.config.TimeoutMS)
TimedOut(timeDiff, cfg) == timeDiff > cfg.TimeoutMS

\* mutant: the upper bound is not checked
LengthOK_NoMaxMut(barcode, cfg) == Len(barcode) >= cfg.MinLength

\* len(barcode) >= MinLength && len(barcode) <= MaxLength
LengthOK(barcode, cfg) == Len(barcode) >= cfg.MinLength /\ Len(barcode) <= cfg.MaxLength

(* History of the assembler (not program state):                           *)
(*   staleRaw  buffered characters accumulated before the latest key-down  *)
(*             whose exact gap exceeded the timeout                        *)
(*   staleMs   the same, the gap taken in whole milliseconds               *)
(*   dropped   characters discarded by a timeout reset so far              *)
(*   rejects   lengths of the candidates rejected at a terminator          *)
(*   run       the mapped characters of the key-downs since the buffer was *)
(*             empty, ok while they came with every gap <= timeout         *)
(*   expect    set by a terminator that ends such a run in time and in     *)
(*             length: the content and the number of payloads expected     *)
(*   key       the virtual key of the latest hook event if it was a        *)
(*             key-down, as a one-element sequence, empty otherwise        *)
(*   err       the latest hook event called the handler and the handler    *)
(*             returned an error                                           *)
(*   edge      the latest hook event was a key-down that came exactly the  *)
(*             timeout after the previous key-down                         *)
(*   lastChar  the time of the key-down of the latest buffered character   *)
(*             (0 with an empty buffer)                                    *)
(*   wide      two adjacent buffered characters went down more than the    *)
(*             timeout apart, in whole milliseconds                        *)
HistInit ==
    [ staleRaw |-> 0, staleMs |-> 0, dropped |-> 0, rejects |-> {},
      run |-> [ok |-> FALSE, chars |-> <<>>], expect |-> <<>>, key |-> <<>>,
      err |-> FALSE, edge |-> FALSE,
      lastChar |-> 0, wide |-> FALSE ]

StaleAfter(long, buf1, stale) ==
    IF long THEN Len(buf1) ELSE IF buf1 = <<>> THEN 0 ELSE stale

Within(gap) == gap <= config.TimeoutMS * TicksPerMs
StaleRawAt(gap, buf1) == StaleAfter(~Within(gap), buf1, hist.staleRaw)
StaleMsAt(gap, buf1) == StaleAfter(Milliseconds(gap) > config.TimeoutMS, buf1, hist.staleMs)
DroppedAt(buf1) == hist.dropped + (Len(barcodeBuffer) - Len(buf1))
WideAt(buf1) == buf1 # <<>> /\ hist.wide

HistKeyDown(vkCode, gap, buf1) ==
    LET ch == getCharFromVirtualKey(vkCode)
    IN  IF isCharacterKey(vkCode)
        THEN [ hist EXCEPT !.staleRaw = StaleRawAt(gap, buf1), !.staleMs = StaleMsAt(gap, buf1),
                 !.dropped = DroppedAt(buf1), !.expect = <<>>, !.key = <<vkCode>>,
                 !.run = IF barcodeBuffer = <<>> THEN [ok |-> TRUE, chars |-> <<ch>>]
                         ELSE IF hist.run.ok /\ Within(gap)
                              THEN [ok |-> TRUE, chars |-> Append(hist.run.chars, ch)]
                              ELSE [ok |-> FALSE, chars |-> <<>>] ]
        ELSE IF vkCode = VK_RETURN
        THEN [ hist EXCEPT !.staleRaw = 0, !.staleMs = 0, !.dropped = DroppedAt(buf1),
                 !.key = <<vkCode>>,
                 !.rejects = IF LengthOK(buf1, config) THEN @ ELSE @ \cup {Len(buf1)},
                 !.run = [ok |-> FALSE, chars |-> <<>>],
                 !.expect = IF /\ hist.run.ok /\ Within(gap)
                               /\ Len(hist.run.chars) >= config.MinLength
                               /\ Len(hist.run.chars) <= config.MaxLength
                            THEN << [content |-> hist.run.chars, count |-> Len(handled) + 1] >>
                            ELSE <<>> ]
        ELSE [ hist EXCEPT !.staleRaw = StaleRawAt(gap, buf1), !.staleMs = StaleMsAt(gap, buf1),
                 !.dropped = DroppedAt(buf1), !.expect = <<>>, !.key = <<vkCode>>,
                 !.run = [ok |-> FALSE, chars |-> <<>>] ]

\* mutant: Reset leaves the buffered characters in place
Reset_KeepMut(buffer) == buffer

\* strings.Builder.Reset
Reset(buffer) == <<>>

\* Hook.keyboardHookProc, called dt ticks after the previous call.  The
\* handler is the one Manager wires, BarcodeHandler, which broadcasts and
\* returns nil; with failed the handler is one that returns an error
\* without reaching the hub, as BarcodeService.HandleBarcode does when
\* its validation or its insert fails.
keyboardHookProc(nCode, wParam, vkCode, dt, failed) ==
    LET currentTime == now + dt
        gap == Sub(currentTime, lastKeyTime)
        timeDiff == Milliseconds(gap)
        buf1 == IF TimedOut(timeDiff, config) THEN Reset(barcodeBuffer) ELSE barcodeBuffer
        ch == getCharFromVirtualKey(vkCode)
        data == ProcessBarcode(buf1, currentTime)
    IN  /\ now' = currentTime
        /\ nEvents' = nEvents + 1
        /\ UNCHANGED config
        /\ IF nCode >= HC_ACTION /\ wParam = WM_KEYDOWN
           THEN /\ lastKeyTime' = currentTime
                /\ hist' = [ HistKeyDown(vkCode, gap, buf1) EXCEPT
                               !.err = /\ failed /\ ~isCharacterKey(vkCode)
                                       /\ vkCode = VK_RETURN /\ LengthOK(buf1, config),
                               !.edge = (gap = config.TimeoutMS * TicksPerMs),
                               !.lastChar = IF isCharacterKey(vkCode) /\ ch # 0
                                            THEN currentTime
                                            ELSE IF vkCode = VK_RETURN \/ buf1 = <<>>
                                            THEN 0 ELSE hist.lastChar,
                               !.wide = IF isCharacterKey(vkCode) /\ ch # 0
                                        THEN \/ WideAt(buf1)
                                             \/ /\ buf1 # <<>>
                                                /\ Milliseconds(currentTime - hist.lastChar)
                                                      > config.TimeoutMS
                                        ELSE vkCode # VK_RETURN /\ WideAt(buf1) ]
                /\ IF isCharacterKey(vkCode)
                   THEN /\ barcodeBuffer' = IF ch # 0 THEN Append(buf1, ch) ELSE buf1
                        /\ UNCHANGED <<handled, sinkVars>>
                   ELSE IF vkCode = VK_RETURN
                   THEN /\ IF LengthOK(buf1, config)
                           THEN /\ handled' = Append(handled,
                                       [ data |-> data,
                                         staleRaw |-> StaleRawAt(gap, buf1),
                                         staleMs |-> StaleMsAt(gap, buf1),
                                         dropped |-> DroppedAt(buf1),
                                         wide |-> WideAt(buf1) ])
                                /\ IF failed
                                   THEN UNCHANGED sinkVars
                                   ELSE HandleBarcode(buf1, currentTime)
                           ELSE UNCHANGED <<handled, sinkVars>>
                        /\ barcodeBuffer' = Reset(barcodeBuffer)
                   ELSE /\ barcodeBuffer' = buf1
                        /\ UNCHANGED <<handled, sinkVars>>
           ELSE /\ hist' = [hist EXCEPT !.expect = <<>>, !.key = <<>>, !.err = FALSE,
                                         !.edge = FALSE]
                /\ UNCHANGED <<lastKeyTime, barcodeBuffer, handled, sinkVars>>

----------------------------------------------------------------------------
(* SpecAsm: the assembler fed arbitrary hook events under a small configuration *)

\* virtual keys fed to the hook: '1', numpad 2, Shift (unmapped), Enter
AsmKeys == {49, 98, 16, VK_RETURN}

\* time between two hook calls: none, exactly the timeout, half a
\* millisecond more, one millisecond more
AsmDts == {0, CfgTimeoutMS * TicksPerMs, CfgTimeoutMS * TicksPerMs + 1,
           (CfgTimeoutMS + 1) * TicksPerMs}

CfgSmall == [TimeoutMS |-> CfgTimeoutMS, MinLength |-> CfgMinLength, MaxLength |-> CfgMaxLength]

ClsIdle == [content |-> <<>>, done |-> FALSE, type |-> "", message |-> ""]

\* NewHook: empty buffer, zero lastKeyTime
InitHook(cfg) ==
    /\ config = cfg
    /\ barcodeBuffer = <<>>
    /\ lastKeyTime = ZeroTime
    /\ now = 0
    /\ nEvents = 0
    /\ handled = <<>>
    /\ hist = HistInit

InitAsm == InitHook(CfgSmall) /\ InitHub /\ script = <<>> /\ cls = ClsIdle /\ InitDb

HookEvent ==
    /\ nEvents < MaxEvents
    /\ \E nCode \in {-1, HC_ACTION}, wParam \in {WM_KEYDOWN, WM_KEYUP},
          vkCode \in AsmKeys, dt \in AsmDts :
            keyboardHookProc(nCode, wParam, vkCode, dt, FALSE)
    /\ UNCHANGED <<script, cls, loopVars, sessVars>>
    /\ UNCHANGED <<muVars, dbVars>>

NextAsm == HookEvent

SpecAsm == InitAsm /\ [][NextAsm]_vars

----------------------------------------------------------------------------
(* SpecErr: the assembler with a handler that may return an error *)

HookEventErr ==
    /\ nEvents < MaxEvents
    /\ \E nCode \in {-1, HC_ACTION}, wParam \in {WM_KEYDOWN, WM_KEYUP},
          vkCode \in AsmKeys, dt \in AsmDts, failed \in BOOLEAN :
            keyboardHookProc(nCode, wParam, vkCode, dt, failed)
    /\ UNCHANGED <<script, cls, loopVars, sessVars>>
    /\ UNCHANGED <<muVars, dbVars>>

NextErr == HookEventErr

SpecErr == InitAsm /\ [][NextErr]_vars

----------------------------------------------------------------------------
(* SpecReplay: the assembler under the default configuration, fed a        *)
(* scripted sequence of key-down events (a scan of up to MaxScan keys with *)
(* at most one disturbance, or one of the end-to-end scenarios).           *)

CfgDefault == [TimeoutMS |-> DefaultTimeoutMS, MinLength |-> DefaultMinLength,
               MaxLength |-> DefaultMaxLength]

KeyDown(vk, dt) == [nCode |-> HC_ACTION, wParam |-> WM_KEYDOWN, vkCode |-> vk, dt |-> dt]

Ms(n) == n * TicksPerMs

\* '1'..'9','0','1','2','3' 50 ms apart, Enter
Scenario1 ==
    [i \in 1..13 |-> KeyDown(48 + (i % 10), Ms(50))] \o <<KeyDown(VK_RETURN, Ms(50))>>
\* 'P','R','D','9','9', Enter
Scenario2 ==
    <<KeyDown(80, Ms(50)), KeyDown(82, Ms(50)), KeyDown(68, Ms(50)), KeyDown(57, Ms(50)),
      KeyDown(57, Ms(50)), KeyDown(VK_RETURN, Ms(50))>>
\* 'A','B', Enter
Scenario3 == <<KeyDown(65, Ms(50)), KeyDown(66, Ms(50)), KeyDown(VK_RETURN, Ms(50))>>
\* '1','2','3', 500 ms pause, '4','5','6', Enter
Scenario4 ==
    <<KeyDown(49, Ms(50)), KeyDown(50, Ms(50)), KeyDown(51, Ms(50)), KeyDown(52, Ms(500)),
      KeyDown(53, Ms(50)), KeyDown(54, Ms(50)), KeyDown(VK_RETURN, Ms(50))>>

MaxScan == DefaultMaxLength + 2

\* gaps of a scan: exactly the timeout, or a twentieth of it
ScanDts == {Ms(DefaultTimeoutMS), Ms(DefaultTimeoutMS) \div 20}
\* gaps of a disturbance: half a tick short of a millisecond more, a millisecond more
LongDts == {Ms(DefaultTimeoutMS) + 1, Ms(DefaultTimeoutMS + 1)}

\* k key-downs of one key dt apart, the key-down number at (if any) after
\* the gap atDt instead, then Enter after endDt
Scan(k, key, dt, at, atDt, endDt) ==
    [i \in 1..k |-> KeyDown(key, IF i = at THEN atDt ELSE dt)] \o <<KeyDown(VK_RETURN, endDt)>>

Scripts ==
    {Scenario1, Scenario2, Scenario3, Scenario4}
    \cup { Scan(k, key, dt, at, atDt, endDt) :
             k \in 0..MaxScan, key \in {103, 16}, dt \in ScanDts, at \in {0, 2},
             atDt \in LongDts, endDt \in ScanDts \cup {Ms(DefaultTimeoutMS + 1)} }
    \cup { Scan(k, 103, dt, 0, dt, dt) \o Scan(k, 49, dt, 0, dt, dt) :
             k \in 0..MaxScan, dt \in ScanDts }

InitReplay == InitHook(CfgDefault) /\ InitHub /\ script \in Scripts /\ cls = ClsIdle /\ InitDb

Replay ==
    /\ nEvents < Len(script)
    /\ LET e == script[nEvents + 1]
       IN  keyboardHookProc(e.nCode, e.wParam, e.vkCode, e.dt, FALSE)
    /\ UNCHANGED <<script, cls, loopVars, sessVars>>
    /\ UNCHANGED <<muVars, dbVars>>

NextReplay == Replay

SpecReplay == InitReplay /\ [][NextReplay]_vars

----------------------------------------------------------------------------
(* SpecCls: the classifier applied to a content drawn from Contents *)

\* "", "PRD", "LOT", "SN", "PR", "S", "prd"
ClsPrefixes == {<<>>, PRD, LOT, SN, <<80, 82>>, <<83>>, <<112, 114, 100>>}

\* the characters around the class boundaries: / 0 9 : @ A Z [ ` a z { - . = _
ClsAlphabet == {47, 48, 57, 58, 64, 65, 90, 91, 96, 97, 122, 123, 45, 46, 61, 95}

\* no or one such character next to the digit run
ClsMids == {<<>>} \cup { <<a>> : a \in ClsAlphabet }

ClsRuns == { [i \in 1..n |-> d] : n \in 0..MaxDigits, d \in {48, 57} }

Contents ==
    { p \o m \o r : p \in ClsPrefixes, m \in ClsMids, r \in ClsRuns }
    \cup { p \o r \o m : p \in ClsPrefixes, m \in ClsMids, r \in ClsRuns }

InitCls ==
    /\ InitHook(CfgDefault) /\ InitHub /\ script = <<>> /\ InitDb
    /\ cls \in { [content |-> c, done |-> FALSE, type |-> "", message |-> ""] : c \in Contents }

\* Processor.GetBarcodeType and Processor.generateMessage on cls.content
Classify ==
    /\ ~cls.done
    /\ cls' = [cls EXCEPT !.done = TRUE,
                          !.type = GetBarcodeType(cls.content),
                          !.message = generateMessage(cls.content)]
    /\ UNCHANGED <<asmVars, sinkVars, loopVars, sessVars>>
    /\ UNCHANGED <<muVars, dbVars>>

NextCls == Classify

SpecCls == InitCls /\ [][NextCls]_vars

----------------------------------------------------------------------------
(* SpecHub: the hub with up to MaxClients connections, a producer that     *)
(* calls HandleBarcode up to MaxMsgs times, and one Close()                *)

\* the content of the k-th scan: "11", "12", ...
HubContent(k) == <<49, 48 + k>>

InitHubSpec == InitHook(CfgDefault) /\ InitHub /\ script = <<>> /\ cls = ClsIdle /\ InitDb

\* the hook hands the next completed barcode to BarcodeHandler.HandleBarcode;
\* the clock only stamps messages, so it is left where it is
Produce ==
    /\ Alive
    /\ nEvents < MaxMsgs
    /\ nEvents' = nEvents + 1
    /\ HandleBarcode(HubContent(nEvents + 1), now)
    /\ UNCHANGED <<config, barcodeBuffer, lastKeyTime, now, script, handled, hist, cls,
                   loopVars, sessVars>>
    /\ UNCHANGED <<muVars, dbVars>>

NextHub ==
    \/ Produce
    \/ Close
    \/ RunWelcome
    \/ RunRegisterNil
    \/ RunUnregisterNil
    \/ RunBroadcast
    \/ \E c \in Clients :
         \/ Connect(c)
         \/ Spawn(c)
         \/ RunRegister(c)
         \/ RunUnregister(c)
         \/ WriteMessage(c)
         \/ WriteClosed(c)
         \/ WritePingFail(c)
         \/ ReadError(c)
         \/ ReadClose(c)
         \/ Fault(c)

SpecHub == InitHubSpec /\ [][NextHub]_vars

----------------------------------------------------------------------------
(* C1: a key-down whose gap to the previous key-down exceeds the timeout   *)
(* discards every character accumulated before it, and no payload holds    *)
(* characters from both sides of such a gap.  As stated, for the exact gap: *)
C1_GapExact ==
    /\ hist.staleRaw = 0
    /\ \A i \in 1..Len(handled) : handled[i].staleRaw = 0

(* C1 amended: the same for a gap that exceeds the timeout in whole        *)
(* milliseconds (the gap truncated to milliseconds, as the code takes it). *)
C1_GapWholeMs ==
    /\ hist.staleMs = 0
    /\ \A i \in 1..Len(handled) : handled[i].staleMs = 0

\* a payload was emitted after a timeout reset discarded earlier characters
C1_Witness == \E i \in 1..Len(handled) : handled[i].dropped > 0

(* C2: every payload handed to the handler has MinLength <= length <=      *)
(* MaxLength; a terminator on a shorter or longer buffer emits nothing.    *)
C2_LengthBounds ==
    \A i \in 1..Len(handled) :
        /\ handled[i].data.Length = Len(handled[i].data.Content)
        /\ handled[i].data.Length >= config.MinLength
        /\ handled[i].data.Length <= config.MaxLength

\* a too-short candidate was rejected and a payload was emitted
C2_Witness ==
    /\ handled # <<>>
    /\ \E l \in hist.rejects : l > 0 /\ l < config.MinLength

\* a too-long candidate was rejected
C2_WitnessLong == \E l \in hist.rejects : l > config.MaxLength

(* C3: from an empty buffer, k mapped character keys (MinLength <= k <=    *)
(* MaxLength) with every gap <= timeout, then the terminator with gap <=   *)
(* timeout, emit exactly one payload, whose content is the k characters in *)
(* arrival order and whose status is "success"; thirteen digits are typed  *)
(* EAN-13.                                                                 *)
C3_CleanScan ==
    /\ hist.expect # <<>> =>
         LET e == hist.expect[1]
         IN  /\ Len(handled) = e.count
             /\ handled[e.count].data.Content = e.content
             /\ handled[e.count].data.Status = "success"
             /\ (Len(e.content) = 13 /\ isAllDigits(e.content)
                   => handled[e.count].data.Type = TypeEAN13)
    /\ (script = Scenario1 /\ nEvents = Len(script)) =>
         /\ Len(handled) = 1
         /\ handled[1].data.Content = <<49, 50, 51, 52, 53, 54, 55, 56, 57, 48, 49, 50, 51>>
         /\ handled[1].data.Type = TypeEAN13
         /\ handled[1].data.Status = "success"

\* scenario 1 was replayed to its end, its terminator ending a clean scan
C3_Witness ==
    /\ script = Scenario1 /\ nEvents = Len(script)
    /\ hist.expect # <<>> /\ Len(hist.expect[1].content) = 13

\* a clean scan of MaxLength keys was completed
C3_WitnessMax ==
    /\ hist.expect # <<>> /\ Len(hist.expect[1].content) = config.MaxLength
    /\ handled # <<>> /\ handled[Len(handled)].data.Length = config.MaxLength

(* C4: the prefix rules come first: every content that starts with PRD is  *)
(* typed product-barcode, with LOT lot-barcode, with SN serial-barcode,    *)
(* also when it is alphanumeric-only.                                      *)
C4_PrefixFirst ==
    cls.done =>
        /\ HasPrefix(cls.content, PRD) => cls.type = TypeProduct
        /\ HasPrefix(cls.content, LOT) => cls.type = TypeLot
        /\ HasPrefix(cls.content, SN) => cls.type = TypeSerial

NoPrefix(c) == ~HasPrefix(c, PRD) /\ ~HasPrefix(c, LOT) /\ ~HasPrefix(c, SN)

\* the first-match table of the numeric and generic rules
TableDigit(b) == b >= 48 /\ b <= 57
TableLetter(b) == (b >= 65 /\ b <= 90) \/ (b >= 97 /\ b <= 122)
TableType(c) ==
    LET digits == \A i \in 1..Len(c) : TableDigit(c[i])
        alnum == \A i \in 1..Len(c) : TableDigit(c[i]) \/ TableLetter(c[i]) \/ c[i] \in {45, 46}
    IN  CASE digits /\ Len(c) = 8 -> TypeEAN8
          [] digits /\ Len(c) = 12 -> TypeUPCA
          [] digits /\ Len(c) = 13 -> TypeEAN13
          [] digits /\ Len(c) = 14 -> TypeITF14
          [] OTHER -> IF alnum THEN TypeCode128 ELSE TypeOther

(* C5: every content without a PRD/LOT/SN prefix is typed by the table:    *)
(* all-digit of length 8, 12, 13, 14 is EAN-8, UPC-A, EAN-13, ITF-14;      *)
(* otherwise digits, letters, '-' and '.' only is Code 128; else other.    *)
C5_Table ==
    (cls.done /\ NoPrefix(cls.content)) => cls.type = TableType(cls.content)

(* C5 amended: the same for every non-empty content without a prefix; the  *)
(* empty content is typed unknown.                                         *)
C5_TableNonEmpty ==
    /\ (cls.done /\ NoPrefix(cls.content) /\ cls.content # <<>>)
          => cls.type = TableType(cls.content)
    /\ (cls.done /\ cls.content = <<>>) => cls.type = TypeUnknown

\* thirteen digits were classified EAN-13
C5_Witness ==
    /\ cls.done /\ Len(cls.content) = 13 /\ NoPrefix(cls.content)
    /\ cls.type = TypeEAN13

\* a content with a character outside the alphanumeric class was classified other
C5_WitnessOther ==
    /\ cls.done /\ NoPrefix(cls.content) /\ cls.content # <<>>
    /\ cls.type = TypeOther

----------------------------------------------------------------------------
(* SpecMu: the hub with the holding of Hub.mu made visible.  Each case of  *)
(* Run takes two steps, the lock and then the case's body with the unlock; *)
(* GetClientCount takes its read lock and returns; BroadcastBarcode reads  *)
(* len(h.clients) without the lock after a successful send.  The message   *)
(* of the broadcast case stays at the head of Hub.broadcast until the      *)
(* body's step.                                                            *)

\* sync.RWMutex: Lock needs no holder at all, RLock no writer
CanLock == ~mu.w /\ mu.r = 0
CanRLock == ~mu.w

\* Hub.Run, register case: h.mu.Lock() (line 69)
MuLockRegister(c) ==
    /\ Alive /\ ~closed /\ runPc = "select"
    /\ hs[c] = "register"
    /\ CanLock
    /\ mu' = [mu EXCEPT !.w = TRUE]
    /\ runPc' = "register"
    /\ runClient' = c
    /\ UNCHANGED <<asmVars, cls, sinkVars, clients, closed, sessVars, rd, dbVars>>

\* Hub.Run, register case: the insert and h.mu.Unlock() (lines 70-71)
MuRegister ==
    /\ runPc = "register"
    /\ RegisterCase(runClient)
    /\ mu' = [mu EXCEPT !.w = FALSE]
    /\ UNCHANGED <<rd, dbVars>>

\* Hub.Run, unregister case: h.mu.Lock() (line 96)
MuLockUnregister(c) ==
    /\ Alive /\ ~closed /\ runPc = "select"
    /\ rp[c] = "unreg"
    /\ CanLock
    /\ mu' = [mu EXCEPT !.w = TRUE]
    /\ runPc' = "unregister"
    /\ runClient' = c
    /\ UNCHANGED <<asmVars, cls, sinkVars, clients, closed, sessVars, rd, dbVars>>

\* Hub.Run, unregister case: the body and h.mu.Unlock() (lines 97-102)
MuUnregister ==
    /\ runPc = "unregister"
    /\ UnregisterCase(runClient)
    /\ runPc' = "select"
    /\ runClient' = Nil
    /\ mu' = [mu EXCEPT !.w = FALSE]
    /\ UNCHANGED <<rd, dbVars>>

\* Hub.Run, broadcast case: h.mu.RLock() (line 105)
MuRLockBroadcast ==
    /\ Alive /\ runPc = "select"
    /\ broadcast # <<>>
    /\ CanRLock
    /\ mu' = [mu EXCEPT !.r = @ + 1]
    /\ runPc' = "broadcast"
    /\ UNCHANGED <<asmVars, cls, sinkVars, clients, closed, runClient, sessVars, rd, dbVars>>

\* Hub.Run, broadcast case: the loop and h.mu.RUnlock() (lines 106-113)
MuBroadcast ==
    /\ runPc = "broadcast"
    /\ BroadcastCase
    /\ runPc' = "select"
    /\ mu' = [mu EXCEPT !.r = @ - 1]
    /\ UNCHANGED <<runClient, rd, dbVars>>

\* Hub.GetClientCount: h.mu.RLock() (line 165)
MuCountRLock ==
    /\ Alive
    /\ rd.count = "idle"
    /\ CanRLock
    /\ mu' = [mu EXCEPT !.r = @ + 1]
    /\ rd' = [rd EXCEPT !.count = "rlocked"]
    /\ UNCHANGED <<asmVars, cls, sinkVars, loopVars, sessVars, dbVars>>

\* Hub.GetClientCount: return len(h.clients) and the deferred RUnlock
\* (lines 166-167)
MuCountReturn ==
    /\ Alive
    /\ rd.count = "rlocked"
    /\ mu' = [mu EXCEPT !.r = @ - 1]
    /\ rd' = [rd EXCEPT !.count = "idle"]
    /\ UNCHANGED <<asmVars, cls, sinkVars, loopVars, sessVars, dbVars>>

\* BarcodeHandler.HandleBarcode: BroadcastBarcode's send; in the send case
\* the call goes on to read len(h.clients) for its log line (line 157)
MuBroadcastBarcode ==
    /\ Alive
    /\ rd.len = "idle"
    /\ nEvents < MaxMsgs
    /\ nEvents' = nEvents + 1
    /\ HandleBarcode(HubContent(nEvents + 1), now)
    /\ rd' = [rd EXCEPT !.len = IF ~closed /\ HasRoom(broadcast, BroadcastCap)
                                 THEN "reading" ELSE "idle"]
    /\ UNCHANGED <<config, barcodeBuffer, lastKeyTime, now, script, handled, hist, cls,
                   loopVars, sessVars, mu, dbVars>>

\* BroadcastBarcode: the read of len(h.clients) is over and the call returns
MuLenRead ==
    /\ Alive
    /\ rd.len = "reading"
    /\ rd' = [rd EXCEPT !.len = "idle"]
    /\ UNCHANGED <<asmVars, cls, sinkVars, loopVars, sessVars, mu, dbVars>>

NextMu ==
    \/ MuRegister
    \/ RunWelcome
    \/ MuUnregister
    \/ MuRLockBroadcast
    \/ MuBroadcast
    \/ MuCountRLock
    \/ MuCountReturn
    \/ MuBroadcastBarcode
    \/ MuLenRead
    \/ \E c \in Clients :
         \/ Connect(c)
         \/ Spawn(c)
         \/ MuLockRegister(c)
         \/ MuLockUnregister(c)
         \/ WriteMessage(c)
         \/ WriteClosed(c)
         \/ WritePingFail(c)
         \/ ReadError(c)
         \/ ReadClose(c)
         \/ Fault(c)

SpecMu == InitHubSpec /\ [][NextMu]_vars

----------------------------------------------------------------------------
(* Steps of the control loop, as seen from the state *)

\* the broadcast case takes the pending message off Hub.broadcast
BroadcastStep == broadcast # <<>> /\ broadcast' = Tail(broadcast)

\* the unregister case takes the request of client c
UnregisterStep(c) == rp[c] = "unreg" /\ rp'[c] = "close"

IsBarcode(m) == m.Type = "barcode"

\* the place of message m in the order of submission
Pos(m) == CHOOSE i \in 1..Len(hhist.submitted) : hhist.submitted[i] = m

IsPrefix(p, q) == Len(p) <= Len(q) /\ SubSeq(q, 1, Len(p)) = p

(* C7: a broadcast processed while every subscriber in the live set has    *)
(* room in its queue appends the same message (the one submitted) to all   *)
(* of their queues; and for each subscriber, the barcode messages are      *)
(* enqueued in submission order and written to its transport in the order  *)
(* they were enqueued.                                                     *)
C7_FanOut ==
    (BroadcastStep /\ \A c \in clients : HasRoom(send[c], SendCap))
        => \A c \in clients : send'[c] = Append(send[c], Head(broadcast))

C7_Order ==
    \A c \in Clients :
        /\ IsPrefix(written[c], hhist.enq[c])
        /\ LET bs == SelectSeq(hhist.enq[c], IsBarcode)
           IN  \A i, j \in 1..Len(bs) :
                   i < j => /\ bs[i] \in Range(hhist.submitted)
                            /\ bs[j] \in Range(hhist.submitted)
                            /\ Pos(bs[i]) < Pos(bs[j])

C7_Broadcast == [][C7_FanOut]_vars /\ []C7_Order

(* C8: a subscriber whose handler reached its send on the register channel *)
(* after BroadcastBarcode had put message M on the broadcast channel never *)
(* has M enqueued on its queue.                                            *)
C8_NeverSubmittedBefore ==
    \A c \in Clients : hhist.before[c] \cap Range(hhist.enq[c]) = {}

(* C8 as amended: a subscriber never has enqueued a message that the       *)
(* control loop had already fanned out when it took the subscriber's       *)
(* registration.                                                           *)
C8_NeverFannedBefore ==
    \A c \in Clients : hhist.atReg[c] \cap Range(hhist.enq[c]) = {}

\* a subscriber registered after one message was fanned out, and got the next
C8_Witness ==
    \E c \in Clients :
        /\ hhist.atReg[c] # {}
        /\ \E m \in Range(written[c]) : IsBarcode(m) /\ m \notin hhist.atReg[c]

(* C9: when the control loop processes a broadcast and the queue of some   *)
(* subscriber in the live set is full, that subscriber leaves the live set *)
(* and its queue is closed in this step, every other live subscriber gets  *)
(* the message, and the loop is back at its select, ready for the next     *)
(* request.                                                                *)
C9_Step ==
    LET full == { c \in clients : ~HasRoom(send[c], SendCap) }
    IN  (BroadcastStep /\ full # {})
            => /\ \A c \in full : c \notin clients' /\ sendClosed'[c]
               /\ \A c \in clients \ full : send'[c] = Append(send[c], Head(broadcast))
               /\ runPc' = "select"
               /\ fatal' = NoPanic

C9_OverflowDrop == [][C9_Step]_vars

(* C10: processing an unregister request for a subscriber that is not in   *)
(* the live set changes neither the live set nor any queue and closes      *)
(* nothing; processing it for a live subscriber removes it and closes its  *)
(* queue, which had not been closed before and is the only one closed.     *)
C10_Step ==
    \A c \in Clients :
        UnregisterStep(c) =>
            /\ fatal' = NoPanic
            /\ send' = send
            /\ IF c \in clients
               THEN /\ clients' = clients \ {c}
                    /\ ~sendClosed[c]
                    /\ sendClosed' = [sendClosed EXCEPT ![c] = TRUE]
                    /\ hhist'.closes = [hhist.closes EXCEPT ![c] = 1]
               ELSE /\ clients' = clients
                    /\ sendClosed' = sendClosed
                    /\ hhist'.closes = hhist.closes

LiveSubscribers ==
    { c \in Clients : /\ hs[c] \in {"spawn", "done"}
                      /\ hhist.how[c] \notin {"welcome", "unregister", "overflow"} }

(* C11: GetClientCount returns the number of subscribers currently in the  *)
(* live set: those admitted by the register case and not dropped for a     *)
(* saturated queue or unregistered since.                                  *)
C11_Count == GetClientCount = Cardinality(LiveSubscribers)

\* BroadcastBarcode is called for the next scan
BroadcastBarcodeStep == nEvents' = nEvents + 1

(* C12: BroadcastBarcode never blocks the producer: with BroadcastCap      *)
(* messages pending the new message is dropped and the pending ones are    *)
(* kept in their order; otherwise the message is appended to the pending   *)
(* ones; in both cases the call returns.                                   *)
C12_Step ==
    BroadcastBarcodeStep =>
        /\ fatal' = NoPanic
        /\ IF Len(broadcast) >= BroadcastCap
           THEN broadcast' = broadcast
           ELSE \E m \in Range(broadcast') :
                   /\ broadcast' = Append(broadcast, m)
                   /\ m.Type = "barcode"
                   /\ m.Data.Content = HubContent(nEvents')

C12_NeverBlocks == [][C12_Step]_vars

(* C13: after Close() every subscriber that was in the live set has its    *)
(* transport closed and its queue closed, and the control loop has halted: *)
(* it takes nothing more from register, unregister or broadcast.           *)
C13_Closed ==
    closed => \A c \in Clients :
                  hhist.how[c] = "close" => conn[c] = "closed" /\ sendClosed[c]

C13_Halted ==
    closed => /\ runPc' = runPc
              /\ clients' = clients
              /\ broadcast' = broadcast
              /\ hhist'.fanned = hhist.fanned

C13_Shutdown == []C13_Closed /\ [][C13_Halted]_vars

C15_NoFault == fatal = NoPanic /\ \A c \in Clients : hs[c] # "failed"

\* the barcode messages the broadcast case has processed
Fanned == { m \in hhist.fanned : m \in Range(hhist.submitted) }

(* C16: the control loop processes requests in the order they arrived,     *)
(* also across kinds: every broadcast submitted before a subscriber's      *)
(* register request was made is processed before that registration, and    *)
(* while a register request waits no broadcast submitted after it is       *)
(* processed.                                                              *)
C16_ArrivalOrder ==
    \A c \in Clients :
        /\ hs[c] \in {"spawn", "done"} => hhist.before[c] \subseteq hhist.atReg[c]
        /\ hs[c] = "register" => Fanned \subseteq hhist.before[c]

(* C16 as amended: broadcast requests are processed in the order in which  *)
(* they were submitted (each one processed is the oldest one submitted and *)
(* not yet processed).                                                     *)
C16_Step ==
    BroadcastStep => /\ Head(broadcast) \in Range(hhist.submitted)
                     /\ Pos(Head(broadcast)) = Cardinality(Fanned) + 1

C16_BroadcastOrder == [][C16_Step]_vars

\* two broadcasts were processed, one before and one after a registration
C16_Witness ==
    \E c \in Clients :
        /\ hs[c] \in {"spawn", "done"}
        /\ Cardinality(hhist.atReg[c]) = 1
        /\ Cardinality(Fanned) = 2

\* Run is inside a case that writes the map: the insert of the register
\* case, the delete of the unregister case, the delete of the broadcast case
MapWrite ==
    \/ runPc = "register"
    \/ runPc = "unregister" /\ Present(runClient, clients)
    \/ runPc = "broadcast" /\ \E c \in clients : ~HasRoom(send[c], SendCap)

\* a read of the map outside Run is under way
MapReadOutside == rd.count = "rlocked" \/ rd.len = "reading"

(* C17: the live set is changed only by steps of the control loop, and no  *)
(* write of the set by the control loop overlaps a read of the set made    *)
(* outside it (GetClientCount under the read lock, the count read in       *)
(* BroadcastBarcode).                                                      *)
C17_NoOverlap == ~(MapWrite /\ MapReadOutside)

C17_OnlyRun == clients' # clients => runPc # "select"

C17_RaceFree == []C17_NoOverlap /\ [][C17_OnlyRun]_vars

\* ---------------------------------------------------------------------
\* C18  Hub register: processing a register request adds the subscriber
\* to the live set and then attempts a non-blocking enqueue of one
\* welcome message on its queue: with room in the queue the subscriber
\* stays live with the welcome message queued last, with a full queue
\* the queue is closed and the subscriber removed; no other outcome.
RegisterStep(c) == hs[c] = "register" /\ hs'[c] = "spawn"

WelcomeStep == runPc = "welcome" /\ runPc' = "select" /\ runClient # Nil

C18_Added == \A c \in Clients :
    RegisterStep(c) => c \in clients' /\ runPc' = "welcome" /\ runClient' = c

C18_Welcomed ==
    WelcomeStep =>
        /\ fatal' = fatal
        /\ IF HasRoom(send[runClient], SendCap)
           THEN /\ runClient \in clients'
                /\ ~sendClosed'[runClient]
                /\ send'[runClient] = Append(send[runClient], WelcomeMessage(now))
           ELSE /\ runClient \notin clients'
                /\ sendClosed'[runClient]
                /\ send'[runClient] = send[runClient]

C18_Register == [][C18_Added /\ C18_Welcomed]_vars

\* ---------------------------------------------------------------------
\* C19  Assembler: a key-down event whose key is neither a mapped
\* character nor the terminator leaves the accumulation buffer unchanged,
\* for every buffer content and every gap since the previous key-down.
\* (The claim as stated.)
\* the key is mapped to a character
Recognised(vk) == getCharFromVirtualKey(vk) # 0

\* the step is a hook call for a key-down of an unrecognised key
IgnoredKeyStep ==
    /\ nEvents' = nEvents + 1
    /\ hist'.key # <<>>
    /\ ~Recognised(hist'.key[1])
    /\ hist'.key[1] # VK_RETURN

C19_Step == IgnoredKeyStep => barcodeBuffer' = barcodeBuffer

C19_Unchanged == [][C19_Step]_vars

\* C19 as amended: such a key-down leaves the buffer unchanged when the
\* gap since the previous key-down, in whole milliseconds, is at most the
\* timeout, and empties it when the gap is longer.
C19_AmendedStep ==
    IgnoredKeyStep =>
        barcodeBuffer' = IF Milliseconds(Sub(now', lastKeyTime)) > config.TimeoutMS
                         THEN <<>> ELSE barcodeBuffer

C19_UnchangedInTime == [][C19_AmendedStep]_vars

\* an unrecognised key went down within the timeout of the previous
\* key-down, nothing was ever discarded, and the buffered characters are
\* still there
C19_Witness ==
    /\ hist.key # <<>>
    /\ ~Recognised(hist.key[1]) /\ hist.key[1] # VK_RETURN
    /\ barcodeBuffer # <<>>
    /\ hist.staleRaw = 0 /\ hist.dropped = 0

\* ---------------------------------------------------------------------
\* C20  Assembler: after processing any terminator key-down event the
\* buffer is empty, whether a payload was emitted, the candidate was
\* rejected for its length, or the handler returned an error; a handler
\* error raises no fault and reaches nobody downstream, and the
\* character key-down that follows the terminator starts the next scan
\* from an empty buffer.
TerminatorStep == nEvents' = nEvents + 1 /\ hist'.key = <<VK_RETURN>>

CharStep == nEvents' = nEvents + 1 /\ hist'.key # <<>> /\ Recognised(hist'.key[1])

C20_Step ==
    /\ TerminatorStep =>
          /\ barcodeBuffer' = <<>>
          /\ fatal' = fatal
          /\ hist'.err => Len(handled') = Len(handled) + 1 /\ broadcast' = broadcast
    /\ hist.key = <<VK_RETURN>> /\ CharStep =>
          barcodeBuffer' = <<getCharFromVirtualKey(hist'.key[1])>>

C20_TerminatorResets == [][C20_Step]_vars

\* a terminator has just been processed whose handler call returned an
\* error, after an earlier terminator whose candidate was rejected; the
\* buffer is empty
C20_Witness ==
    /\ hist.key = <<VK_RETURN>> /\ hist.err
    /\ hist.rejects # {}
    /\ barcodeBuffer = <<>>

\* ---------------------------------------------------------------------
\* C21  Assembler timeout boundary: a character key-down discards the
\* buffered characters only when the gap to the previous key-down, in
\* whole milliseconds, is strictly greater than the configured timeout;
\* with a gap equal to the timeout (or shorter) the buffer is kept and
\* the new character is appended to it.
C21_Step ==
    CharStep =>
        LET ch == getCharFromVirtualKey(hist'.key[1])
            timeDiff == Milliseconds(Sub(now', lastKeyTime))
        IN  barcodeBuffer' = IF timeDiff > config.TimeoutMS
                             THEN <<ch>>
                             ELSE Append(barcodeBuffer, ch)

C21_Boundary == [][C21_Step]_vars

\* a character went down exactly the timeout after the previous key-down
\* and was appended to the characters already buffered
C21_Witness ==
    /\ hist.edge
    /\ hist.key # <<>> /\ Recognised(hist.key[1])
    /\ Len(barcodeBuffer) >= 2
    /\ hist.dropped = 0

----------------------------------------------------------------------------
(* SpecSvc: the assembler under the default configuration with the
   persistence-backed handler, BarcodeService.HandleBarcode, which returns
   an error when ValidateBarcode rejects the content (the insert is taken
   to succeed) *)

\* '1', 'A', '/', ',', the quote key, Enter
SvcKeys == {49, 65, 191, 188, 222, VK_RETURN}

\* all within the default timeout
SvcDts == {0, Ms(1)}

InitSvc == InitHook(CfgDefault) /\ InitHub /\ script = <<>> /\ cls = ClsIdle /\ InitDb

HookEventSvc ==
    /\ nEvents < MaxEvents
    /\ \E vkCode \in SvcKeys, dt \in SvcDts :
          LET timeDiff == Milliseconds(Sub(now + dt, lastKeyTime))
              barcode == IF TimedOut(timeDiff, config) THEN <<>> ELSE barcodeBuffer
          IN  keyboardHookProc(HC_ACTION, WM_KEYDOWN, vkCode, dt, ~ValidateBarcode(barcode))
    /\ UNCHANGED <<script, cls, loopVars, sessVars>>
    /\ UNCHANGED <<muVars, dbVars>>

NextSvc == HookEventSvc

SpecSvc == InitSvc /\ [][NextSvc]_vars

----------------------------------------------------------------------------
(* SpecDev: concurrent callers of DeviceService.ActivateDevice on a table
   that starts with at most one active row *)

InitDev ==
    /\ InitHook(CfgDefault) /\ InitHub /\ script = <<>> /\ cls = ClsIdle
    /\ devices \in Tables
    /\ calls = [p \in Callers |-> NoCall]

NextDev ==
    \E p \in Callers :
       \/ \E id \in RequestIds : ActivateDeviceBegin(p, id)
       \/ ActivateDeviceEnd(p)

SpecDev == InitDev /\ [][NextDev]_vars

----------------------------------------------------------------------------
(* SpecHubFair: SpecHub with the scheduling the runtime provides.  Run's
   select takes a ready case at random, so a case that is ready again and
   again is taken (strong fairness); a goroutine that can take its next step
   takes it (weak fairness); the ping ticker of writePump keeps firing. *)

FairRun ==
    /\ WF_vars(RunWelcome)
    /\ SF_vars(RunBroadcast)
    /\ \A c \in Clients : SF_vars(RunRegister(c)) /\ SF_vars(RunUnregister(c))

FairSessions ==
    \A c \in Clients :
        /\ WF_vars(Spawn(c))
        /\ WF_vars(WriteMessage(c))
        /\ WF_vars(WriteClosed(c))
        /\ WF_vars(WritePingFail(c))
        /\ WF_vars(ReadError(c))
        /\ WF_vars(ReadClose(c))

SpecHubFair == SpecHub /\ FairRun /\ FairSessions

----------------------------------------------------------------------------
(* SpecIn: the hub in service with subscribers that send messages *)

NextIn ==
    \/ Produce
    \/ RunWelcome
    \/ RunBroadcast
    \/ \E c \in Clients :
         \/ Connect(c)
         \/ Spawn(c)
         \/ RunRegister(c)
         \/ WriteMessage(c)
         \/ ReadMessage(c)

SpecIn == InitHubSpec /\ [][NextIn]_vars

----------------------------------------------------------------------------
(* SpecPipe: scripted scans through the hook while the hub is in service *)

PipeScan(keys, dt) ==
    [i \in 1..Len(keys) |-> KeyDown(keys[i], dt)] \o <<KeyDown(VK_RETURN, dt)>>

\* '1','2', a pause above the timeout, '3','4', Enter
PipePaused ==
    << KeyDown(49, Ms(CfgTimeoutMS)), KeyDown(50, Ms(CfgTimeoutMS)),
       KeyDown(51, Ms(CfgTimeoutMS + 1)), KeyDown(52, Ms(CfgTimeoutMS)),
       KeyDown(VK_RETURN, Ms(CfgTimeoutMS)) >>

\* under CfgSmall: a candidate too short then a scan; one too long then a
\* scan; a paused scan; a short candidate then a paused scan; two scans
PipeScripts ==
    { PipeScan(<<49>>, Ms(CfgTimeoutMS)) \o PipeScan(<<50, 51>>, Ms(CfgTimeoutMS)),
      PipeScan(<<49, 50, 51, 52>>, Ms(CfgTimeoutMS)) \o PipeScan(<<53, 54>>, Ms(CfgTimeoutMS)),
      PipePaused,
      PipeScan(<<49>>, Ms(CfgTimeoutMS)) \o PipePaused,
      PipeScan(<<55, 56>>, Ms(CfgTimeoutMS)) \o PipeScan(<<57, 48>>, Ms(CfgTimeoutMS)) }

InitPipe == InitHook(CfgSmall) /\ InitHub /\ script \in PipeScripts /\ cls = ClsIdle /\ InitDb

NextPipe ==
    \/ Replay
    \/ RunWelcome
    \/ RunBroadcast
    \/ \E c \in Clients :
          \/ Connect(c)
          \/ Spawn(c)
          \/ RunRegister(c)
          \/ WriteMessage(c)

SpecPipe == InitPipe /\ [][NextPipe]_vars

\* ---------------------------------------------------------------------
\* C22  Pipeline: exactly one broadcast request is submitted to the hub
\* for each completed payload and none otherwise: the handler is called,
\* and the message put on the hub's channel, in exactly the terminator
\* steps whose candidate is within the length bounds; a rejected
\* candidate or a timeout discard submits nothing, and every payload
\* message ever put on a subscriber's queue is one of the payloads
\* completed.
Candidate == IF Milliseconds(Sub(now', lastKeyTime)) > config.TimeoutMS THEN <<>> ELSE barcodeBuffer

Completes ==
    /\ TerminatorStep
    /\ Len(Candidate) >= config.MinLength
    /\ Len(Candidate) <= config.MaxLength

C22_Step ==
    IF Completes
    THEN /\ Len(handled') = Len(handled) + 1
         /\ handled'[Len(handled')].data.Content = Candidate
         /\ HasRoom(broadcast, BroadcastCap) =>
               /\ Len(broadcast') = Len(broadcast) + 1
               /\ broadcast'[Len(broadcast')].Type = "barcode"
               /\ broadcast'[Len(broadcast')].Data = handled'[Len(handled')].data
               /\ hhist'.submitted = Append(hhist.submitted, broadcast'[Len(broadcast')])
    ELSE /\ handled' = handled
         /\ hhist'.submitted = hhist.submitted
         /\ broadcast' = broadcast \/ (broadcast # <<>> /\ broadcast' = Tail(broadcast))

C22_Delivered ==
    \A c \in Clients : \A m \in Range(hhist.enq[c]) :
        IsBarcode(m) => \E i \in 1..Len(handled) : handled[i].data = m.Data

C22_OnePerPayload == [][C22_Step]_vars /\ []C22_Delivered

\* the script has run with a candidate rejected and buffered characters
\* discarded by the timeout, and the one payload completed is on a
\* subscriber's queue
C22_Witness ==
    /\ hist.rejects # {} /\ hist.dropped > 0
    /\ Len(handled) = 1
    /\ \E c \in Clients : \E m \in Range(hhist.enq[c]) : IsBarcode(m) /\ m.Data = handled[1].data

\* ---------------------------------------------------------------------
\* C23  Payload: every payload constructed by ProcessBarcode has status
\* "success", a length field equal to the number of characters of its
\* content, and content equal to the buffer at the terminator; the
\* payload in every message queued for, and written to, a subscriber is
\* one of the payloads constructed, with all its fields as constructed.
WellFormed(data) ==
    /\ data.Status = "success"
    /\ data.Length = Len(data.Content)

C23_Step ==
    Completes =>
        /\ Len(handled') = Len(handled) + 1
        /\ WellFormed(handled'[Len(handled')].data)
        /\ handled'[Len(handled')].data.Content = Candidate

Constructed == { handled[i].data : i \in 1..Len(handled) }

C23_Received ==
    \A c \in Clients :
        \A m \in Range(hhist.enq[c]) \cup Range(send[c]) \cup Range(written[c]) :
            IsBarcode(m) => m.Data \in Constructed /\ WellFormed(m.Data)

C23_Payload == [][C23_Step]_vars /\ []C23_Received

\* a subscriber has been written a message whose payload is a constructed
\* one of at least two characters
C23_Witness ==
    \E c \in Clients : \E m \in Range(written[c]) :
        /\ IsBarcode(m)
        /\ m.Data \in Constructed
        /\ m.Data.Length >= 2

\* ---------------------------------------------------------------------
\* C24  Subscriber inbound loop: when it observes a read error or the
\* read deadline expires, it submits one unregister request for its
\* subscriber and then closes the transport, without fault; the
\* subscriber is then eventually absent from the live set with its queue
\* closed, its transport closed and its outbound loop terminated.
C24_Step ==
    \A c \in Clients :
        /\ ReadError(c) => rp'[c] = "unreg" /\ fatal' = fatal
        /\ rp[c] = "unreg" /\ rp'[c] # "unreg" => rp'[c] = "close" /\ fatal' = fatal
        /\ rp[c] = "close" /\ rp'[c] # "close" => rp'[c] = "done" /\ conn'[c] = "closed"

C24_Gone(c) == c \notin clients /\ sendClosed[c] /\ conn[c] = "closed" /\ wp[c] = "done"

C24_Eventually == \A c \in Clients : (rp[c] = "unreg") ~> C24_Gone(c)

C24_ReadError == [][C24_Step]_vars /\ C24_Eventually

\* ---------------------------------------------------------------------
\* C25  Subscriber outbound loop: a write failure (message or ping) or a
\* closed queue terminates the loop and closes the transport; the inbound
\* loop then terminates and requests unregistration without fault, so
\* both loops of the subscriber end and it is eventually out of the live
\* set, while the live-set membership and the queues of every other
\* subscriber are unchanged by these steps.
WriteEnds(c) == WriteClosed(c) \/ WritePingFail(c) \/ (WriteMessage(c) /\ conn[c] # "open")

OthersUnchanged(c) ==
    \A d \in Clients \ {c} :
        /\ (d \in clients') = (d \in clients)
        /\ send'[d] = send[d]
        /\ sendClosed'[d] = sendClosed[d]

C25_Step ==
    \A c \in Clients :
        /\ WriteEnds(c) => wp'[c] = "done" /\ conn'[c] = "closed" /\ OthersUnchanged(c)
        /\ wp[c] = "done" /\ ReadError(c) =>
              rp'[c] = "unreg" /\ fatal' = fatal /\ OthersUnchanged(c)
        /\ RunUnregister(c) => OthersUnchanged(c)

C25_Eventually ==
    \A c \in Clients : (wp[c] = "done") ~> (rp[c] = "done" /\ c \notin clients /\ sendClosed[c])

C25_WriteFailure == [][C25_Step]_vars /\ C25_Eventually

\* ---------------------------------------------------------------------
\* C26  Backpressure liveness: a subscriber dropped by the hub for queue
\* overflow eventually loses its connection: its outbound loop takes the
\* messages already queued, observes the closed queue only when none is
\* left, and closes the transport; both of its loops terminate, and the
\* unregister request its inbound loop then submits, without fault,
\* changes nothing in the hub.
Dropped(c) == hhist.how[c] = "overflow"

C26_Step ==
    \A c \in Clients :
        Dropped(c) =>
            /\ WriteClosed(c) => send[c] = <<>> /\ wp'[c] = "done" /\ conn'[c] = "closed"
            /\ ReadError(c) => rp'[c] = "unreg" /\ fatal' = fatal
            /\ RunUnregister(c) =>
                  /\ clients' = clients /\ send' = send /\ sendClosed' = sendClosed
                  /\ fatal' = fatal

C26_Eventually ==
    \A c \in Clients :
        Dropped(c) ~> (conn[c] = "closed" /\ wp[c] = "done" /\ rp[c] = "done")

C26_Backpressure == [][C26_Step]_vars /\ C26_Eventually

\* ---------------------------------------------------------------------
\* C27  Subscriber inbound loop: a message sent by a subscriber is never
\* interpreted as a command: reading it leaves the live set, every
\* outbound queue and the pending broadcasts unchanged and submits no
\* request to the hub (no broadcast, no register, no unregister).
InboundStep(c) == hhist'.inbound[c] # hhist.inbound[c]

C27_Step ==
    \A c \in Clients :
        InboundStep(c) =>
            /\ clients' = clients
            /\ send' = send /\ sendClosed' = sendClosed
            /\ broadcast' = broadcast
            /\ hhist'.submitted = hhist.submitted
            /\ hs' = hs /\ rp' = rp
            /\ runPc' = runPc /\ runClient' = runClient

C27_NotACommand == [][C27_Step]_vars

\* a registered subscriber has sent a message while a payload message was
\* pending and another subscriber was live
C27_Witness ==
    \E c \in Clients :
        /\ hhist.inbound[c] # <<>>
        /\ c \in clients
        /\ broadcast # <<>>
        /\ clients # {c}

\* ---------------------------------------------------------------------
\* C28  Message envelope: the welcome message enqueued on registration
\* has type "welcome", carries the fixed greeting and has no data
\* payload; every payload message has type "barcode" and a data payload.
Greeting == WelcomeMessage(0).Data.message

HasData(m) == DOMAIN m.Data # {}

CarriesGreeting(m) ==
    \/ "message" \in DOMAIN m /\ m.message = Greeting
    \/ "message" \in DOMAIN m.Data /\ m.Data.message = Greeting

C28_Envelope ==
    \A c \in Clients : \A m \in Range(hhist.enq[c]) :
        /\ m.Type \in {"welcome", "barcode"}
        /\ m.Type = "welcome" => CarriesGreeting(m) /\ ~HasData(m)
        /\ m.Type = "barcode" => HasData(m) /\ m.Data.Status = "success"

\* ---------------------------------------------------------------------
\* C29  Hub: for every subscriber the welcome message is the first
\* message ever enqueued on its outbound queue: no payload message is
\* enqueued on it before the welcome message, whatever the interleaving
\* of registrations and broadcasts.
C29_WelcomeFirst ==
    \A c \in Clients :
        /\ hhist.enq[c] # <<>> => hhist.enq[c][1].Type = "welcome"
        /\ \A i \in 2..Len(hhist.enq[c]) : hhist.enq[c][i].Type # "welcome"

\* a subscriber registered while a payload message was pending got the
\* welcome message first and that payload message second
C29_Witness ==
    \E c \in Clients :
        /\ Len(hhist.enq[c]) >= 2
        /\ hhist.enq[c][1].Type = "welcome"
        /\ IsBarcode(hhist.enq[c][2])
        /\ hhist.enq[c][2] \in hhist.before[c]

\* ---------------------------------------------------------------------
\* C30  Hub: for every subscriber created by HandleWebSocket the control
\* loop has taken its register request before its two session loops
\* start, so the control loop never processes an unregister request of a
\* subscriber before that subscriber's register request, and a
\* subscriber is never added to the live set after it was unregistered
\* (or after its loops have started).
RegisterTaken(c) == c \in clients \/ hhist.how[c] # ""

C30_LoopsAfterRegister ==
    \A c \in Clients : (rp[c] # "off" \/ wp[c] # "off") => RegisterTaken(c)

C30_Step ==
    \A c \in Clients :
        /\ RunUnregister(c) => RegisterTaken(c)
        /\ c \notin clients /\ c \in clients' =>
              /\ rp[c] = "off" /\ wp[c] = "off"
              /\ hhist.how[c] = "" /\ hhist.enq[c] = <<>>

C30_RegisterFirst == []C30_LoopsAfterRegister /\ [][C30_Step]_vars

\* a subscriber was registered, its loops ran, and the control loop has
\* processed its unregister request and removed it
C30_Witness ==
    \E c \in Clients :
        /\ hhist.how[c] = "unregister"
        /\ c \notin clients
        /\ rp[c] = "done"

\* ---------------------------------------------------------------------
\* C31  Hub invariant: in every reachable state, Close() included, every
\* subscriber in the live set has an open outbound queue and every
\* subscriber whose queue was closed is absent from the live set, and no
\* step of the control loop sends on a closed queue.
C31_LiveQueuesOpen == \A c \in Clients : c \in clients => ~sendClosed[c]

C31_NoSendOnClosed ==
    RunWelcome \/ RunBroadcast => fatal' # "send on closed channel"

C31_OpenQueues == []C31_LiveQueuesOpen /\ [][C31_NoSendOnClosed]_vars

\* ---------------------------------------------------------------------
\* C32  Hub shutdown empties the live set: after Close() has returned,
\* GetClientCount returns 0.
C32_EmptyAfterClose == closed => GetClientCount = 0

\* ---------------------------------------------------------------------
\* C33  Assembler: in every emitted payload the key-downs of any two
\* adjacent characters of its content are at most the timeout apart (the
\* gap taken in whole milliseconds, as the code takes gaps): the gap is
\* measured from the most recently accepted character, and an unmapped
\* key pressed in between does not extend the window.
C33_AdjacentInTime == \A i \in 1..Len(handled) : ~handled[i].wide

\* ---------------------------------------------------------------------
\* C34  Classifier consistency: for every content the type tag of
\* GetBarcodeType and the message of generateMessage name the same
\* classification: the product / lot / serial-number message comes
\* exactly with the product / lot / serial-number type, and the EAN-8 /
\* UPC-A / EAN-13 / ITF-14 message exactly with the type of that format.
C34_Consistent ==
    cls.done =>
        /\ (cls.message = MsgProduct) = (cls.type = TypeProduct)
        /\ (cls.message = MsgLot) = (cls.type = TypeLot)
        /\ (cls.message = MsgSerial) = (cls.type = TypeSerial)
        /\ (cls.message = MsgEAN8) = (cls.type = TypeEAN8)
        /\ (cls.message = MsgUPCA) = (cls.type = TypeUPCA)
        /\ (cls.message = MsgEAN13) = (cls.type = TypeEAN13)
        /\ (cls.message = MsgITF14) = (cls.type = TypeITF14)

\* ---------------------------------------------------------------------
\* C35  Assembler / validator agreement: every content the assembler
\* emits under the default configuration is accepted by ValidateBarcode,
\* so BarcodeService.HandleBarcode never rejects a payload the assembler
\* completed.
C35_Accepted ==
    /\ ~hist.err
    /\ \A i \in 1..Len(handled) : ValidateBarcode(handled[i].data.Content)

\* ---------------------------------------------------------------------
\* C36  ActivateDevice: once every call has returned, at most one device
\* has is_active = true; and after a successful ActivateDevice(id) that
\* ran alone, the active device is id.
C36_AtMostOne ==
    (\A p \in Callers : calls[p].pc = "idle")
        => Cardinality(ActiveDevices(devices)) <= 1

C36_Alone ==
    \A p \in Callers :
       ActivateDeviceEnd(p) /\ calls[p].alone /\ calls'[p].result = "ok"
           => ActiveDevices(devices') = {calls[p].id}

C36_Exclusive == []C36_AtMostOne /\ [][C36_Alone]_vars

\* ---------------------------------------------------------------------
\* C37  ActivateDevice with an id that matches no device returns the
\* "device does not exist" error and leaves the table as it was: the
\* device active before the call is active after it.
C37_Step ==
    \A p \in Callers :
       ActivateDeviceEnd(p) /\ calls[p].id \notin DeviceIds
           => /\ calls'[p].result = ErrNotExist
              /\ ActiveDevices(devices') = calls[p].before

C37_Unchanged == [][C37_Step]_vars

====
